---------------------------- MODULE Spec2Model ----------------------------
(***************************************************************************)
(* interdoc: documentation generator for exported TypeScript interfaces    *)
(* and type aliases.                                                       *)
(*                                                                         *)
(* Text is modelled as a sequence of one-character strings, so that the    *)
(* string operations of the code (endsWith, slice, replace, padEnd, split, *)
(* join, length) are computed rather than assumed.  An optional field      *)
(* (`description?: string`) is <<>> when undefined and <<text>> otherwise. *)
(***************************************************************************)
EXTENDS Integers, Sequences, FiniteSets, TLC

VARIABLES
    pc,       \* position of the run that the specification describes
    node,     \* extractType: the type node it is given
    shape,    \* extractType: the Type it returned
    stmts,    \* extractDocumentation: the statements of the source file
    docs,     \* the Documentation[] handed to preprocessForMarkdown
    linked,   \* preprocessForMarkdown: the Record<string, LinkedDocumentation>
    logged,   \* the lines handed to the log callback, in order
    sink,     \* the log callback: "noop" (the default () => {}) or "debug" (console.debug)
    console,  \* the lines the log callback printed
    format,   \* generateMarkdown: 'tables' | 'json'
    out,      \* generateMarkdown: the pieces appended to `out`, in order
    other,    \* the linked model and the output of an earlier run on the same input
    parser,   \* the ArgumentParser: flags, options, aliases, allowDoubleDash
    argv,     \* process.argv.slice(2)
    parsed,   \* what ArgumentParser.parse returned, or that it threw
    exists,   \* what output.exists() answers
    events,   \* the effects of the command-line run, in order
    written   \* the text Bun.write wrote to the output, if any

vars == <<pc, node, shape, stmts, docs, linked, logged, sink, console, format, out, other,
          parser, argv, parsed, exists, events, written>>

cliVars == <<parser, argv, parsed, exists, events, written>>

-----------------------------------------------------------------------------
(* Text *)

None == <<>>
Some(text) == <<text>>
IsSome(opt) == opt # <<>>
Get(opt) == opt[1]

\* a ?? b
OrElse(opt, text) == IF IsSome(opt) THEN Get(opt) ELSE text

\* JS truthiness of a `string | undefined`: undefined and '' are falsy
Truthy(opt) == IsSome(opt) /\ Get(opt) # <<>>

T_string == <<"s", "t", "r", "i", "n", "g">>
T_number == <<"n", "u", "m", "b", "e", "r">>
T_boolean == <<"b", "o", "o", "l", "e", "a", "n">>
T_any == <<"a", "n", "y">>
T_placeholder == <<"{", "}">>
T_brackets == <<"[", "]">>
T_bar == <<" ", "|", " ">>
T_amp == <<" ", "&", " ">>

\* String.prototype.endsWith
EndsWith(s, suffix) ==
    /\ Len(s) >= Len(suffix)
    /\ SubSeq(s, Len(s) - Len(suffix) + 1, Len(s)) = suffix

\* String.prototype.indexOf, 1-based; 0 when the pattern does not occur
IndexOf(s, pat) ==
    LET hits == {i \in 1..(Len(s) - Len(pat) + 1) : SubSeq(s, i, i + Len(pat) - 1) = pat}
    IN  IF hits = {} THEN 0 ELSE CHOOSE i \in hits : \A j \in hits : i <= j

RECURSIVE Join(_, _)
\* Array.prototype.join
Join(texts, sep) ==
    IF texts = <<>> THEN <<>>
    ELSE IF Len(texts) = 1 THEN texts[1]
    ELSE texts[1] \o sep \o Join(Tail(texts), sep)

RECURSIVE Flatten(_)
\* Array.prototype.flatMap(t => t)
Flatten(lists) ==
    IF lists = <<>> THEN <<>> ELSE lists[1] \o Flatten(Tail(lists))

RECURSIVE CountPlaceholders(_)
\* the number of {} tokens of a format template, left to right
CountPlaceholders(s) ==
    LET i == IndexOf(s, T_placeholder)
    IN  IF i = 0 THEN 0
        ELSE 1 + CountPlaceholders(SubSeq(s, i + Len(T_placeholder), Len(s)))

Max(a, b) == IF a >= b THEN a ELSE b

\* String.prototype.padEnd
PadEnd(s, n) == IF Len(s) >= n THEN s ELSE s \o [i \in 1..(n - Len(s)) |-> " "]

\* String.prototype.repeat
Repeat(ch, n) == [i \in 1..n |-> ch]

RECURSIVE Split(_, _)
\* String.prototype.split on a one-character separator
Split(s, ch) ==
    LET i == IndexOf(s, <<ch>>)
    IN  IF i = 0 THEN <<s>>
        ELSE <<SubSeq(s, 1, i - 1)>> \o Split(SubSeq(s, i + 1, Len(s)), ch)

RECURSIVE GetSubstitution(_, _)
\* the replacement text of String.prototype.replace: $$ stands for a dollar
\* sign and $& for the match (the patterns that name the text before and
\* after the match need characters no type name of the model holds)
GetSubstitution(repl, matched) ==
    IF repl = <<>> THEN <<>>
    ELSE IF repl[1] = "$" /\ Len(repl) >= 2 /\ repl[2] \in {"$", "&"}
    THEN (IF repl[2] = "$" THEN <<"$">> ELSE matched)
         \o GetSubstitution(SubSeq(repl, 3, Len(repl)), matched)
    ELSE <<repl[1]>> \o GetSubstitution(Tail(repl), matched)

\* String.prototype.replace with a string pattern: the first occurrence only
Replace(s, pat, repl) ==
    LET i == IndexOf(s, pat)
    IN  IF i = 0 THEN s
        ELSE SubSeq(s, 1, i - 1) \o GetSubstitution(repl, pat)
             \o SubSeq(s, i + Len(pat), Len(s))

\* a call of the log callback with each of the lines
Emit(callback, printed, lines) == IF callback = "debug" THEN printed \o lines ELSE printed

\* a JS object used as a map: its own keys in insertion order and their values
EmptyObject == [keys |-> <<>>, vals |-> <<>>]

\* obj[key] = value; a key that is already there keeps its place
Assign(obj, key, value) ==
    [keys |-> IF key \in DOMAIN obj.vals THEN obj.keys ELSE Append(obj.keys, key),
     vals |-> (key :> value) @@ obj.vals]


\* Array.prototype.includes
Includes(texts, text) == \E i \in 1..Len(texts) : texts[i] = text

-----------------------------------------------------------------------------
(* args.ts: ArgumentParser *)

T_doubleDash == <<"-", "-">>
T_help == <<"h", "e", "l", "p">>
T_force == <<"f", "o", "r", "c", "e">>
T_verbose == <<"v", "e", "r", "b", "o", "s", "e">>
T_input == <<"i", "n", "p", "u", "t">>
T_output == <<"o", "u", "t", "p", "u", "t">>
T_format == <<"f", "o", "r", "m", "a", "t">>

\* String.prototype.startsWith
StartsWith(s, prefix) == Len(s) >= Len(prefix) /\ SubSeq(s, 1, Len(prefix)) = prefix

\* String.prototype.slice(n): the text after its first n characters
SliceFrom(s, n) == SubSeq(s, n + 1, Len(s))

\* new ArgumentParser()
NewParser == [flags |-> <<>>, options |-> <<>>, aliases |-> <<>>, allowDoubleDash |-> FALSE]

\* alias.forEach(a => this.aliases.set(a, name))
SetAliases(aliases, alias, name) ==
    aliases \o [k \in 1..Len(alias) |-> [from |-> alias[k], to |-> name]]

\* ArgumentParser.flag
flag(p, name, alias) ==
    [p EXCEPT !.flags = Append(@, name), !.aliases = SetAliases(@, alias, name)]

\* ArgumentParser.option
option(p, name, alias) ==
    [p EXCEPT !.options = Append(@, name), !.aliases = SetAliases(@, alias, name)]

\* ArgumentParser.doubleDash
doubleDash(p) == [p EXCEPT !.allowDoubleDash = TRUE]

\* this.aliases.get(option) ?? option: of the entries set for a key the last
\* one is the one the Map holds
ResolveAlias(aliases, name) ==
    LET hits == {k \in 1..Len(aliases) : aliases[k].from = name}
    IN  IF hits = {} THEN name
        ELSE aliases[CHOOSE k \in hits : \A h \in hits : h <= k].to

\* the values a property of the parse result holds
FlagSet == [kind |-> "true", text |-> <<>>]
Undefined == [kind |-> "undefined", text |-> <<>>]
Value(text) == [kind |-> "string", text |-> text]

\* the parse result: args, and the own properties set on it
EmptyParsed == [threw |-> FALSE, args |-> <<>>, props |-> <<>>]

\* parsed[name] = value; props holds the assignments, the last one for a name
\* being the value of the property
SetProp(result, name, value) ==
    [result EXCEPT !.props = Append(@, [name |-> name, value |-> value])]

\* parsed[name], Undefined when the property was never set
Prop(result, name) ==
    LET hits == {k \in 1..Len(result.props) : result.props[k].name = name}
    IN  IF hits = {} THEN Undefined
        ELSE result.props[CHOOSE k \in hits : \A h \in hits : h <= k].value

\* the index the loop of parse compares i with: args.indexOf('--') when the
\* double dash is allowed, -1 otherwise (indexes count from 1 here, so 0)
DoubleDashIndex(p, args) ==
    IF p.allowDoubleDash
    THEN LET hits == {k \in 1..Len(args) : args[k] = T_doubleDash}
         IN  IF hits = {} THEN 0 ELSE CHOOSE k \in hits : \A h \in hits : k <= h
    ELSE 0

RECURSIVE ParseFrom(_, _, _, _)
\* the loop of parse, from index i on
ParseFrom(p, args, i, result) ==
    IF i > Len(args) THEN result
    ELSE IF i = DoubleDashIndex(p, args)
    THEN [result EXCEPT !.args = @ \o SubSeq(args, i + 1, Len(args))]
    ELSE LET arg == args[i] IN
         IF StartsWith(arg, <<"-">>)
         THEN LET raw == IF StartsWith(arg, T_doubleDash) THEN SliceFrom(arg, 2)
                                                          ELSE SliceFrom(arg, 1)
                  equalsIndex == IndexOf(raw, <<"=">>)
                  hasValue == equalsIndex # 0
                  value == IF hasValue THEN SliceFrom(raw, equalsIndex) ELSE <<>>
                  name == ResolveAlias(p.aliases,
                             IF hasValue THEN SubSeq(raw, 1, equalsIndex - 1) ELSE raw)
              IN  IF Includes(p.flags, name)
                  THEN IF hasValue THEN [result EXCEPT !.threw = TRUE]
                       ELSE ParseFrom(p, args, i + 1, SetProp(result, name, FlagSet))
                  ELSE IF Includes(p.options, name)
                  THEN IF hasValue
                       THEN ParseFrom(p, args, i + 1, SetProp(result, name, Value(value)))
                       ELSE ParseFrom(p, args, i + 2,
                                      SetProp(result, name,
                                              IF i + 1 <= Len(args) THEN Value(args[i + 1])
                                                                    ELSE Undefined))
                  ELSE ParseFrom(p, args, i + 1, result)
         ELSE ParseFrom(p, args, i + 1, [result EXCEPT !.args = Append(@, arg)])

\* ArgumentParser.parse
parse(p, args) == ParseFrom(p, args, 1, EmptyParsed)

\* no call of parse has returned yet
NoParse == [threw |-> FALSE, args |-> <<>>, props |-> <<[name |-> <<>>, value |-> Undefined]>>]

\* the command line is not part of the run
CliIdle ==
    /\ parser = NewParser
    /\ argv = <<>>
    /\ parsed = NoParse
    /\ exists = FALSE
    /\ events = <<>>
    /\ written = None

-----------------------------------------------------------------------------
(* Type nodes, as the TypeScript parser hands them to extractType.          *)
(* kind: "absent" (no annotation), "ref" (TypeReferenceNode), "array",       *)
(* "union", "intersection", or "other" (keyword, literal, parenthesized,   *)
(* tuple, ...).  text is typeName.getText() of a ref and getText() of an     *)
(* other node; kids are the element type or the member types.              *)

MaxNodeSize == 4

Absent == [kind |-> "absent", text |-> <<>>, kids |-> <<>>]
Ref(name) == [kind |-> "ref", text |-> name, kids |-> <<>>]
Other(text) == [kind |-> "other", text |-> text, kids |-> <<>>]
ArrayOf(elem) == [kind |-> "array", text |-> <<>>, kids |-> <<elem>>]
UnionOf(members) == [kind |-> "union", text |-> <<>>, kids |-> members]
IntersectionOf(members) == [kind |-> "intersection", text |-> <<>>, kids |-> members]

T_A == <<"A">>
T_B == <<"B">>
T_D == <<"D">>
T_literal == <<"\"", "a", "\"">>
T_paren == <<"(", "A", " ", "|", " ", "B", ")">>

LeafNodes == {Ref(T_A), Ref(T_D), Other(T_string), Other(T_literal), Other(T_paren)}

RECURSIVE NodesOfSize(_, _), MemberLists(_, _, _)
\* The nodes with `size` AST nodes that the parser can produce in position
\* ctx: an array element is never a bare union or intersection and a union
\* member never a bare union (those need parentheses, an "other" node).
NodesOfSize(size, ctx) ==
    IF size < 1 THEN {}
    ELSE IF size = 1 THEN LeafNodes
    ELSE {ArrayOf(e) : e \in NodesOfSize(size - 1, "elem")}
         \cup (IF ctx \in {"top"}
               THEN {UnionOf(m) : m \in MemberLists(size - 1, "umember", 2)}
               ELSE {})
         \cup (IF ctx \in {"top", "umember"}
               THEN {IntersectionOf(m) : m \in MemberLists(size - 1, "imember", 2)}
               ELSE {})

MemberLists(size, ctx, minLen) ==
    (IF size = 0 /\ minLen <= 0 THEN {<<>>} ELSE {})
    \cup UNION {{<<n>> \o rest : n \in NodesOfSize(k, ctx),
                                 rest \in MemberLists(size - k, ctx, minLen - 1)}
                : k \in 1..size}

TypeNodes == {Absent} \cup UNION {NodesOfSize(s, "top") : s \in 1..MaxNodeSize}

RECURSIVE getText(_)
\* ts.Node.getText(): the source text of the node
getText(n) ==
    CASE n.kind = "array" -> getText(n.kids[1]) \o T_brackets
      [] n.kind = "union" -> Join([i \in 1..Len(n.kids) |-> getText(n.kids[i])], T_bar)
      [] n.kind = "intersection" -> Join([i \in 1..Len(n.kids) |-> getText(n.kids[i])], T_amp)
      [] OTHER -> n.text

-----------------------------------------------------------------------------
(* extract.ts: extractType *)

\* types.flatMap(t => t.types) with only the first member's leaves kept
UnionTypes_firstOnly(types) == types[1].types

\* types.flatMap(t => t.types)
UnionTypes(types) == Flatten([i \in 1..Len(types) |-> types[i].types])

\* types.map(t => t.format).join('|'), the blanks around the bar dropped
UnionFormat_noBlanks(types) == Join([i \in 1..Len(types) |-> types[i].format], <<"|">>)

\* types.map(t => t.format).join(' | ')
UnionFormat(types) == Join([i \in 1..Len(types) |-> types[i].format], T_bar)

RECURSIVE extractType(_)
extractType(n) ==
    CASE n.kind = "absent" -> [types |-> <<T_any>>, format |-> T_placeholder]
      [] n.kind = "ref" -> [types |-> <<n.text>>, format |-> T_placeholder]
      [] n.kind = "array" ->
            LET type == extractType(n.kids[1])
            IN  [types |-> type.types, format |-> type.format \o T_brackets]
      [] n.kind \in {"union", "intersection"} ->
            LET types == [i \in 1..Len(n.kids) |-> extractType(n.kids[i])]
            IN  [types |-> UnionTypes(types), format |-> UnionFormat(types)]
      [] OTHER -> [types |-> <<n.text>>, format |-> T_placeholder]

NoShape == [types |-> <<>>, format |-> <<>>]

\* extractType is called on a type node and returns
ExtractTypeCall ==
    /\ pc = "type"
    /\ shape' = extractType(node)
    /\ pc' = "typed"
    /\ UNCHANGED <<node, stmts, docs, linked, logged, sink, console, format, out, other>>
    /\ UNCHANGED cliVars

InitType ==
    /\ pc = "type"
    /\ node \in TypeNodes
    /\ shape = NoShape
    /\ stmts = <<>>
    /\ docs = <<>>
    /\ linked = EmptyObject
    /\ logged = <<>>
    /\ sink = "noop"
    /\ console = <<>>
    /\ format = "tables"
    /\ other = None
    /\ CliIdle
    /\ out = <<>>

NextType == ExtractTypeCall

SpecType == InitType /\ [][NextType]_vars

-----------------------------------------------------------------------------
(* extract.ts: extractDocumentation.                                        *)
(* A statement of the source file: kind "interface", "alias", "import" or  *)
(* "other"; exported says whether its modifiers hold the export keyword;   *)
(* members are an interface's members (kind "property" for a               *)
(* PropertySignature, "method" for any other member); type is an alias's   *)
(* target; jsDoc is its first JSDoc child.  A fixed fragment of a log      *)
(* line is kept as one element of the text.                                *)

NoJSDoc == [present |-> FALSE, comment |-> None, tags |-> <<>>]
JSDoc(comment, tags) == [present |-> TRUE, comment |-> comment, tags |-> tags]
Tag(tagName, comment) == [tagName |-> tagName, comment |-> comment]

\* getJSDocComment: the comment of a JSDoc node or tag (a NodeArray comment
\* arrives here as its texts joined by '\n'), undefined when there is none
getJSDocComment(hasComment) ==
    IF hasComment.present THEN hasComment.comment ELSE None

\* jsDoc?.tags?.find(tag => tag.tagName.text === name)
FindTag(jsDoc, name) ==
    LET hits == {i \in 1..Len(jsDoc.tags) : jsDoc.tags[i].tagName = name}
    IN  IF ~jsDoc.present \/ hits = {}
        THEN [present |-> FALSE, comment |-> None]
        ELSE LET i == CHOOSE k \in hits : \A j \in hits : k <= j
             IN  [present |-> TRUE, comment |-> jsDoc.tags[i].comment]

extractPropertyDocumentation(member) ==
    [name |-> member.name,
     type |-> extractType(member.type),
     optional |-> member.questionToken,
     description |-> getJSDocComment(member.jsDoc),
     default |-> getJSDocComment(FindTag(member.jsDoc, "default")),
     example |-> getJSDocComment(FindTag(member.jsDoc, "example"))]

RECURSIVE ExtractMembers(_, _, _)
\* the loop over node.members: the properties pushed and the lines logged
ExtractMembers(owner, members, acc) ==
    IF members = <<>> THEN acc
    ELSE LET member == Head(members) IN
         IF member.kind # "property"
         THEN ExtractMembers(owner, Tail(members),
                [acc EXCEPT !.logged = Append(@, <<"Skipping non-property member ">> \o member.name)])
         ELSE LET prop == extractPropertyDocumentation(member)
                  warn == IF Includes(prop.type.types, T_any)
                          THEN <<(<<"WARNING: Could not resolve type for ">> \o owner
                                  \o <<".">> \o prop.name \o <<", using 'any'">>)>>
                          ELSE <<>>
              IN  ExtractMembers(owner, Tail(members),
                    [properties |-> Append(acc.properties, prop),
                     logged |-> acc.logged \o warn])

\* the export check with the modifiers never looked at
HasExportModifier_always(stmt) == TRUE

\* node.modifiers?.some(mod => mod.kind === ts.SyntaxKind.ExportKeyword)
HasExportModifier(stmt) == stmt.exported

RECURSIVE ExtractStatements(_, _)
\* the loop over sourceFile.statements: the docs pushed and the lines logged.
\* A doc with kind "type" is a TypeDocumentation ('type' in doc), one with
\* kind "interface" an InterfaceDocumentation.
ExtractStatements(statements, acc) ==
    IF statements = <<>> THEN acc
    ELSE LET stmt == Head(statements) IN
         CASE stmt.kind = "interface" ->
                IF ~HasExportModifier(stmt)
                THEN ExtractStatements(Tail(statements),
                       [acc EXCEPT !.logged = Append(@,
                          <<"Skipping non-exported interface ">> \o stmt.name)])
                ELSE LET m == ExtractMembers(stmt.name, stmt.members,
                                [properties |-> <<>>,
                                 logged |-> Append(acc.logged,
                                    <<"Extracting documentation for interface ">> \o stmt.name)])
                     IN  ExtractStatements(Tail(statements),
                           [docs |-> Append(acc.docs,
                                       [kind |-> "interface",
                                        name |-> stmt.name,
                                        description |-> getJSDocComment(stmt.jsDoc),
                                        example |-> getJSDocComment(FindTag(stmt.jsDoc, "example")),
                                        properties |-> m.properties,
                                        type |-> NoShape]),
                            logged |-> m.logged])
           [] stmt.kind = "alias" ->
                IF ~HasExportModifier(stmt)
                THEN ExtractStatements(Tail(statements),
                       [acc EXCEPT !.logged = Append(@,
                          <<"Skipping non-exported type ">> \o stmt.name)])
                ELSE ExtractStatements(Tail(statements),
                       [docs |-> Append(acc.docs,
                                   [kind |-> "type",
                                    name |-> stmt.name,
                                    description |-> getJSDocComment(stmt.jsDoc),
                                    example |-> getJSDocComment(FindTag(stmt.jsDoc, "example")),
                                    properties |-> <<>>,
                                    type |-> extractType(stmt.type)]),
                        logged |-> Append(acc.logged,
                                     <<"Extracting documentation for type ">> \o stmt.name)])
           [] stmt.kind = "import" ->
                ExtractStatements(Tail(statements),
                  [acc EXCEPT !.logged = Append(@, <<"WARNING: Importing is not supported yet">>)])
           [] OTHER ->
                ExtractStatements(Tail(statements),
                  [acc EXCEPT !.logged = Append(@, <<"Skipping non-interface node ">> \o stmt.name)])

extractDocumentation(statements) ==
    ExtractStatements(statements,
        [docs |-> <<>>, logged |-> <<(<<"Parsing file">>), (<<"Extracting interfaces and types">>)>>])

\* extractDocumentation is called on the parsed source file and returns
ExtractDocumentationCall ==
    /\ pc = "extract"
    /\ LET r == extractDocumentation(stmts)
       IN  /\ docs' = r.docs
           /\ logged' = logged \o r.logged
           /\ console' = Emit(sink, console, r.logged)
    /\ pc' = "extracted"
    /\ UNCHANGED <<node, shape, stmts, linked, sink, format, out, other>>
    /\ UNCHANGED cliVars

(* The statements a source file is drawn from *)
MaxStatements == 2
MaxMembers == 1

T_x == <<"x">>
T_y == <<"y">>
T_z == <<"z">>
MemberNames == <<T_x, T_y, T_z>>

RECURSIVE SeqsUpTo(_, _)
\* the sequences over S of length at most n
SeqsUpTo(S, n) ==
    IF n = 0 THEN {<<>>}
    ELSE LET shorter == SeqsUpTo(S, n - 1)
         IN  shorter \cup {Append(q, e) : q \in {r \in shorter : Len(r) = n - 1}, e \in S}

\* member lists: property signatures and other members, named by position
MemberLists_extract ==
    {[i \in 1..Len(kinds) |->
        [kind |-> kinds[i],
         name |-> MemberNames[((i - 1) % Len(MemberNames)) + 1],
         type |-> IF i % 2 = 1 THEN Ref(T_A) ELSE Absent,
         questionToken |-> (i % 2 = 0),
         jsDoc |-> NoJSDoc]]
     : kinds \in SeqsUpTo({"property", "method"}, MaxMembers)}

Statements ==
    {[kind |-> "interface", exported |-> e, name |-> n, members |-> m,
      type |-> Absent, jsDoc |-> NoJSDoc]
       : e \in BOOLEAN, n \in {T_A, T_B}, m \in MemberLists_extract}
    \cup {[kind |-> "alias", exported |-> e, name |-> n, members |-> <<>>,
           type |-> Other(T_string), jsDoc |-> JSDoc(Some(<<"d">>), <<>>)]
            : e \in BOOLEAN, n \in {T_A, T_B}}
    \cup {[kind |-> k, exported |-> FALSE, name |-> <<"f">>, members |-> <<>>,
           type |-> Absent, jsDoc |-> NoJSDoc]
            : k \in {"import", "other"}}

InitExtract ==
    /\ pc = "extract"
    /\ stmts \in SeqsUpTo(Statements, MaxStatements)
    /\ node = Absent
    /\ shape = NoShape
    /\ docs = <<>>
    /\ linked = EmptyObject
    /\ logged = <<>>
    /\ sink \in {"noop", "debug"}
    /\ console = <<>>
    /\ format = "tables"
    /\ other = None
    /\ CliIdle
    /\ out = <<>>

NextExtract == ExtractDocumentationCall

SpecExtract == InitExtract /\ [][NextExtract]_vars

-----------------------------------------------------------------------------
(* markdown.ts.  A Documentation handed to preprocessForMarkdown carries    *)
(* each type as its source text (type: string): the text of the alias      *)
(* target, and the text of a property's annotation or 'any' without one.   *)

T_Property == <<"P", "r", "o", "p", "e", "r", "t", "y">>
T_Type == <<"T", "y", "p", "e">>
T_Optional == <<"O", "p", "t", "i", "o", "n", "a", "l">>
T_Default == <<"D", "e", "f", "a", "u", "l", "t">>
T_Description == <<"D", "e", "s", "c", "r", "i", "p", "t", "i", "o", "n">>
T_Example == <<"E", "x", "a", "m", "p", "l", "e">>
T_Yes == <<"Y", "e", "s">>
T_No == <<"N", "o">>
T_true == <<"t", "r", "u", "e">>
T_false == <<"f", "a", "l", "s", "e">>
T_dash == <<"-">>
T_constructor == <<"c", "o", "n", "s", "t", "r", "u", "c", "t", "o", "r">>
T_toString == <<"t", "o", "S", "t", "r", "i", "n", "g">>
T_valueOf == <<"v", "a", "l", "u", "e", "O", "f">>
T_hasOwnProperty == <<"h", "a", "s", "O", "w", "n", "P", "r", "o", "p", "e", "r", "t", "y">>
T_isPrototypeOf == <<"i", "s", "P", "r", "o", "t", "o", "t", "y", "p", "e", "O", "f">>
T_toLocaleString == <<"t", "o", "L", "o", "c", "a", "l", "e", "S", "t", "r", "i", "n", "g">>

\* what every object literal inherits from Object.prototype (the
\* identifier-named ones a type can be called after)
ObjectPrototypeKeys ==
    {T_constructor, T_toString, T_valueOf, T_hasOwnProperty, T_isPrototypeOf,
     T_toLocaleString}

\* linked[key] read as a condition, every key taken for missing
IsTruthyAt_never(obj, key) == FALSE

\* linked[key] read as a condition: a property read follows the prototype
\* chain of the object literal
IsTruthyAt(obj, key) == key \in DOMAIN obj.vals \/ key \in ObjectPrototypeKeys

NoLink == [to |-> None, format |-> <<>>]

linkifyType(type) ==
    IF type \in {T_string, T_number, T_boolean, T_any}
    THEN [to |-> None, format |-> type]
    ELSE IF EndsWith(type, T_brackets)
    THEN [to |-> Some(SubSeq(type, 1, Len(type) - 2)), format |-> T_placeholder \o T_brackets]
    ELSE [to |-> Some(type), format |-> T_placeholder]

\* the first loop of preprocessForMarkdown: one doc linked
LinkDoc(doc) ==
    IF doc.kind = "type"
    THEN [kind |-> "type",
          description |-> doc.description,
          example |-> doc.example,
          type |-> linkifyType(doc.type),
          properties |-> <<>>]
    ELSE [kind |-> "interface",
          description |-> doc.description,
          example |-> doc.example,
          type |-> NoLink,
          properties |-> [i \in 1..Len(doc.properties) |->
                            [name |-> doc.properties[i].name,
                             type |-> linkifyType(doc.properties[i].type),
                             optional |-> doc.properties[i].optional,
                             description |-> doc.properties[i].description,
                             default |-> doc.properties[i].default,
                             example |-> doc.properties[i].example]]]

RECURSIVE BuildLinked(_, _)
BuildLinked(list, obj) ==
    IF list = <<>> THEN obj
    ELSE BuildLinked(Tail(list), Assign(obj, Head(list).name, LinkDoc(Head(list))))

\* type.to && !linked[type.to]
IsUnresolved(obj, link) == Truthy(link.to) /\ ~IsTruthyAt(obj, Get(link.to))

\* type.format = type.to; delete type.to
Unlink(link) == [to |-> None, format |-> Get(link.to)]

RECURSIVE UnresolvedLines(_, _, _)
\* the lines logged for the properties of one interface, in property order
UnresolvedLines(obj, owner, properties) ==
    IF properties = <<>> THEN <<>>
    ELSE (IF IsUnresolved(obj, Head(properties).type)
          THEN <<(<<"WARNING: Could not resolve type link for ">> \o owner
                  \o <<".">> \o Head(properties).name)>>
          ELSE <<>>)
         \o UnresolvedLines(obj, owner, Tail(properties))

RECURSIVE ResolveDocs(_, _)
\* the second loop of preprocessForMarkdown, over docs: linked[doc.name] is
\* changed in place, so a name met again finds its links already resolved
ResolveDocs(list, acc) ==
    IF list = <<>> THEN acc
    ELSE LET doc == Head(list)
             obj == acc.linked
             linkedDoc == obj.vals[doc.name]
         IN  IF linkedDoc.kind = "type"
             THEN IF IsUnresolved(obj, linkedDoc.type)
                  THEN ResolveDocs(Tail(list),
                         [linked |-> Assign(obj, doc.name,
                                       [linkedDoc EXCEPT !.type = Unlink(linkedDoc.type)]),
                          logged |-> Append(acc.logged,
                                       <<"WARNING: Could not resolve type link for ">> \o doc.name)])
                  ELSE ResolveDocs(Tail(list), acc)
             ELSE ResolveDocs(Tail(list),
                    [linked |-> Assign(obj, doc.name,
                                  [linkedDoc EXCEPT !.properties =
                                     [i \in 1..Len(linkedDoc.properties) |->
                                        IF IsUnresolved(obj, linkedDoc.properties[i].type)
                                        THEN [linkedDoc.properties[i] EXCEPT
                                                !.type = Unlink(linkedDoc.properties[i].type)]
                                        ELSE linkedDoc.properties[i]]]),
                     logged |-> acc.logged
                                \o UnresolvedLines(obj, doc.name, linkedDoc.properties)])

\* preprocessForMarkdown with the second loop run only when a log callback
\* other than the default is passed
preprocessForMarkdown_quiet(list, log) ==
    LET first == [linked |-> BuildLinked(list, EmptyObject), logged |-> <<>>]
        r == IF log = "noop" THEN first ELSE ResolveDocs(list, first)
    IN  [linked |-> r.linked, logged |-> r.logged, printed |-> Emit(log, <<>>, r.logged)]

\* returns the linked record, the lines handed to log and what log printed
preprocessForMarkdown(list, log) ==
    LET r == ResolveDocs(list, [linked |-> BuildLinked(list, EmptyObject), logged |-> <<>>])
    IN  [linked |-> r.linked, logged |-> r.logged, printed |-> Emit(log, <<>>, r.logged)]

\* the link text of the markdown form
MarkdownLink(to) == <<"[">> \o to \o <<"]", "(", "#">> \o to \o <<")">>

\* the link text of the HTML form
HtmlLink(to) == <<"<a href=\"#">> \o to \o <<"\">">> \o to \o <<"</a>">>

stringifyLink(type, useHTML) ==
    IF Truthy(type.to)
    THEN Replace(type.format, T_placeholder,
                 IF useHTML THEN HtmlLink(Get(type.to)) ELSE MarkdownLink(Get(type.to)))
    ELSE type.format

RECURSIVE MinLineLength_noHeader(_, _)
\* the column width with the header's length left out
MinLineLength_noHeader(header, cells) ==
    IF cells = <<>> THEN 0
    ELSE Max(Len(Head(cells)), MinLineLength_noHeader(header, Tail(cells)))

RECURSIVE MinLineLength(_, _)
\* minLineLength.<column>: the header's length, raised by Math.max to the
\* length of each measured text
MinLineLength(header, cells) ==
    IF cells = <<>> THEN Len(header)
    ELSE Max(Len(Head(cells)), MinLineLength(header, Tail(cells)))

\* one line of the table
Row(c1, c2, c3, c4, c5, c6) ==
    <<"|", " ">> \o c1 \o T_bar \o c2 \o T_bar \o c3 \o T_bar \o c4 \o T_bar \o c5
        \o T_bar \o c6 \o <<" ", "|", "\n">>

\* the Optional cell written as String(property.optional) writes it
OptionalCell_asString(property) == IF property.optional THEN T_true ELSE T_false

\* the Optional cell of a data row: property.optional ? 'Yes' : 'No'
OptionalCell(property) == IF property.optional THEN T_Yes ELSE T_No

\* the pieces generateTable appends to its `out`, one per line
generateTable(doc) ==
    LET ps == doc.properties
        n == Len(ps)
        w1 == MinLineLength(T_Property, [i \in 1..n |-> ps[i].name])
        w2 == MinLineLength(T_Type, [i \in 1..n |-> stringifyLink(ps[i].type, FALSE)])
        w3 == MinLineLength(T_Optional,
                            [i \in 1..n |-> IF ps[i].optional THEN T_true ELSE T_false])
        w4 == MinLineLength(T_Default, [i \in 1..n |-> OrElse(ps[i].default, <<>>)])
        w5 == MinLineLength(T_Description, [i \in 1..n |-> OrElse(ps[i].description, <<>>)])
        w6 == MinLineLength(T_Example, [i \in 1..n |-> OrElse(ps[i].example, <<>>)])
    IN  <<Row(PadEnd(T_Property, w1), PadEnd(T_Type, w2), PadEnd(T_Optional, w3),
              PadEnd(T_Default, w4), PadEnd(T_Description, w5), PadEnd(T_Example, w6)),
          Row(Repeat("-", w1), Repeat("-", w2), Repeat("-", w3),
              Repeat("-", w4), Repeat("-", w5), Repeat("-", w6))>>
        \o [i \in 1..n |->
              Row(PadEnd(ps[i].name, w1),
                  PadEnd(stringifyLink(ps[i].type, FALSE), w2),
                  PadEnd(OptionalCell(ps[i]), w3),
                  PadEnd(OrElse(ps[i].default, T_dash), w4),
                  PadEnd(OrElse(ps[i].description, <<>>), w5),
                  PadEnd(OrElse(ps[i].example, <<>>), w6))]

\* the description written after one "  // ", its line breaks left as they are
DescriptionComment_unsplit(description) == <<"  // ">> \o description \o <<"\n">>

\* description.split('\n').map(line => `  // ${line}`).join('\n') + '\n'
DescriptionComment(description) ==
    Join([k \in 1..Len(Split(description, "\n")) |->
            <<"  // ">> \o Split(description, "\n")[k]], <<"\n">>)
    \o <<"\n">>

\* the pieces appended for one property of the json form
PropertyJSON(property) ==
    (IF Truthy(property.description)
     THEN <<DescriptionComment(Get(property.description))>>
     ELSE <<>>)
    \o (IF Truthy(property.default)
        THEN <<(<<"  // Defaults to: ">> \o Get(property.default) \o <<"\n">>)>>
        ELSE <<>>)
    \o (IF Truthy(property.example)
        THEN <<(<<"  // Example: ">> \o Get(property.example) \o <<"\n">>)>>
        ELSE <<>>)
    \o <<(<<"  <strong>">> \o property.name \o <<"</strong>">>
          \o (IF property.optional THEN <<"?">> ELSE <<>>)
          \o <<": ">> \o stringifyLink(property.type, TRUE) \o <<",", "\n">>)>>

\* the pieces generateJSON appends to its `out`
generateJSON(doc) ==
    <<(<<"<pre>", "\n">>), (<<"{", "\n">>)>>
    \o Flatten([i \in 1..Len(doc.properties) |-> PropertyJSON(doc.properties[i])])
    \o <<(<<"}", "\n">>), (<<"</pre>", "\n">>)>>

\* the pieces generateMarkdown appends for one entry of the record
Section(name, doc, fmt) ==
    <<(<<"\n", "#", "#", " ">> \o name \o <<"\n">>)>>
    \o (IF Truthy(doc.description) THEN <<(Get(doc.description) \o <<" ", " ", "\n">>)>> ELSE <<>>)
    \o (IF doc.kind = "type"
        THEN <<(<<"Type: ">> \o stringifyLink(doc.type, FALSE) \o <<"\n">>)>>
        ELSE IF fmt = "tables" THEN generateTable(doc) ELSE generateJSON(doc))
    \o (IF Truthy(doc.example)
        THEN <<(<<"\n", "Example: ", "\n">> \o Get(doc.example))>>
        ELSE <<>>)

\* Object.entries(docs): the own keys in insertion order
Entries(obj) == obj.keys

\* returns the pieces of the output, the lines handed to log and what log
\* printed
generateMarkdown(obj, fmt, log) ==
    LET names == Entries(obj)
        lines == Flatten([i \in 1..Len(names) |->
                    IF obj.vals[names[i]].kind = "type" THEN <<>>
                    ELSE IF fmt = "tables"
                    THEN <<(<<"Generating table for ">> \o names[i])>>
                    ELSE <<(<<"Generating JSON for ">> \o names[i])>>])
    IN  [out |-> Flatten([i \in 1..Len(names) |-> Section(names[i], obj.vals[names[i]], fmt)]),
         logged |-> lines,
         printed |-> Emit(log, <<>>, lines)]

\* preprocessForMarkdown is called on the extracted docs and returns
PreprocessCall ==
    /\ pc = "docs"
    /\ LET r == preprocessForMarkdown(docs, sink)
       IN  /\ linked' = r.linked
           /\ logged' = logged \o r.logged
           /\ console' = console \o r.printed
    /\ pc' = "linked"
    /\ UNCHANGED <<node, shape, stmts, docs, sink, format, out, other>>
    /\ UNCHANGED cliVars

\* generateMarkdown is called on the linked record and returns
GenerateCall ==
    /\ pc = "linked"
    /\ LET r == generateMarkdown(linked, format, sink)
       IN  /\ out' = r.out
           /\ logged' = logged \o r.logged
           /\ console' = console \o r.printed
    /\ pc' = "done"
    /\ UNCHANGED <<node, shape, stmts, docs, linked, sink, format, other>>
    /\ UNCHANGED cliVars

\* the caller runs the two functions again on the same docs and format, with
\* a log callback of its choice
RunAgain ==
    /\ pc = "done"
    /\ other = None
    /\ other' = Some([linked |-> linked, out |-> out, sink |-> sink])
    /\ sink' \in {"noop", "debug"}
    /\ pc' = "docs"
    /\ linked' = EmptyObject
    /\ logged' = <<>>
    /\ console' = <<>>
    /\ out' = <<>>
    /\ UNCHANGED <<node, shape, stmts, docs, format>>
    /\ UNCHANGED cliVars

NextPipeline == PreprocessCall \/ GenerateCall

-----------------------------------------------------------------------------
(* index.ts: the command-line script.  It runs to its first await in one   *)
(* step and from each await to the next in one step; process.exit ends the *)
(* run on the spot.  events keeps what the run did, in order.              *)

T_dotTs == <<".", "t", "s">>
T_dotMd == <<".", "m", "d">>
T_stdout == <<"-">>
T_tables == <<"t", "a", "b", "l", "e", "s">>
T_json == <<"j", "s", "o", "n">>

\* the parser of the script before its call of doubleDash()
argParserOptions ==
    option(option(option(flag(flag(flag(NewParser, T_help, <<(<<"h">>)>>),
                                   T_force, <<(<<"f">>)>>),
                              T_verbose, <<>>),
                         T_input, <<(<<"i">>)>>),
                  T_output, <<(<<"o">>)>>),
           T_format, <<>>)

\* const argParser = new ArgumentParser().flag(...)....doubleDash()
argParser == doubleDash(argParserOptions)

\* a property of args read as a string: its text when it is one
TextOr(value, text) == IF value.kind = "string" THEN value.text ELSE text

\* a property of args read as a condition
IsTruthyValue(value) == value.kind = "true" \/ (value.kind = "string" /\ value.text # <<>>)

\* args.format ?? 'tables'
FormatOf(args) ==
    IF Prop(args, T_format).kind = "undefined" THEN T_tables
    ELSE TextOr(Prop(args, T_format), T_tables)

\* the message of the first check of lines 36-54 that fails, None when all pass
UsageError(args) ==
    LET input == Prop(args, T_input)
        output == Prop(args, T_output)
    IN  IF FormatOf(args) \notin {T_tables, T_json}
        THEN Some("Invalid format")
        ELSE IF ~IsTruthyValue(input)
        THEN Some("No input file specified")
        ELSE IF ~EndsWith(TextOr(input, <<>>), T_dotTs)
        THEN Some("Input file must be a .ts file")
        ELSE IF /\ IsTruthyValue(output)
                /\ ~EndsWith(TextOr(output, <<>>), T_dotMd)
                /\ TextOr(output, <<>>) # T_stdout
        THEN Some("Output file must be a .md file or stdout (-)")
        ELSE None

\* invalidUsage: console.error(error); console.log(...); process.exit(1)
invalidUsage(error) == <<error, "Use --help for usage.">>

\* the script from its start to the call of output.exists()
Startup ==
    /\ pc = "cli"
    /\ LET args == parse(parser, argv) IN
       /\ parsed' = args
       /\ IF args.threw
          THEN /\ pc' = "crashed"
               /\ UNCHANGED <<console, events>>
          ELSE IF IsTruthyValue(Prop(args, T_help))
          THEN /\ pc' = "exited"
               /\ console' = console \o <<"help">>
               /\ events' = Append(events, "exit 0")
          ELSE IF IsSome(UsageError(args))
          THEN /\ pc' = "exited"
               /\ console' = console \o invalidUsage(Get(UsageError(args)))
               /\ events' = events \o <<"invalidUsage", "exit 1">>
          ELSE /\ pc' = "checking"
               /\ UNCHANGED <<console, events>>
    /\ UNCHANGED <<node, shape, stmts, docs, linked, logged, sink, format, out, other>>
    /\ UNCHANGED <<parser, argv, exists, written>>

\* the force check with an invalidUsage that returns
ForceOrExit_returns ==
    /\ sink' = (IF IsTruthyValue(Prop(parsed, T_verbose)) THEN "debug" ELSE "noop")
    /\ pc' = "reading"
    /\ console' = IF exists /\ ~IsTruthyValue(Prop(parsed, T_force))
                  THEN console
                       \o invalidUsage("Output file already exists. Use -f to overwrite")
                  ELSE console
    /\ events' = (IF exists /\ ~IsTruthyValue(Prop(parsed, T_force))
                  THEN Append(events, "invalidUsage") ELSE events) \o <<"read">>

\* if (await output.exists() && !force) invalidUsage(...); otherwise
\* setVerbose() when verbose, and Bun.file(input).text() is called
ForceOrExit ==
    IF exists /\ ~IsTruthyValue(Prop(parsed, T_force))
    THEN /\ pc' = "exited"
         /\ console' = console
                       \o invalidUsage("Output file already exists. Use -f to overwrite")
         /\ events' = events \o <<"invalidUsage", "exit 1">>
         /\ UNCHANGED sink
    ELSE /\ sink' = (IF IsTruthyValue(Prop(parsed, T_verbose)) THEN "debug" ELSE "noop")
         /\ pc' = "reading"
         /\ console' = console
         /\ events' = Append(events, "read")

\* output.exists() has answered
ForceCheck ==
    /\ pc = "checking"
    /\ ForceOrExit
    /\ format' = (IF FormatOf(parsed) = T_json THEN "json" ELSE "tables")
    /\ UNCHANGED <<node, shape, stmts, docs, linked, logged, out, other>>
    /\ UNCHANGED <<parser, argv, parsed, exists, written>>

\* the documentation lists the input file may hold
CliDocLists ==
    {<<>>,
     <<[kind |-> "type", name |-> T_A, type |-> T_string,
        description |-> None, example |-> None, properties |-> <<>>]>>}

\* Bun.file(input).text() has settled: it rejects, or it gives the contents
\* and extractDocumentation is called on them
ReadInput ==
    /\ pc = "reading"
    /\ \/ /\ pc' = "crashed"
          /\ UNCHANGED <<docs, events>>
       \/ /\ docs' \in CliDocLists
          /\ events' = Append(events, "extract")
          /\ pc' = "extracting"
    /\ UNCHANGED <<node, shape, stmts, linked, logged, sink, console, format, out, other>>
    /\ UNCHANGED <<parser, argv, parsed, exists, written>>

\* extractDocumentation has returned: preprocessForMarkdown and
\* generateMarkdown run, each with its default log, and Bun.write is called
RunPipeline ==
    /\ pc = "extracting"
    /\ LET l == preprocessForMarkdown(docs, "noop")
           g == generateMarkdown(l.linked, format, "noop")
       IN  /\ linked' = l.linked
           /\ out' = g.out
           /\ logged' = logged \o l.logged \o g.logged
           /\ console' = console \o l.printed \o g.printed
    /\ events' = events \o <<"preprocess", "generate">>
    /\ pc' = "writing"
    /\ UNCHANGED <<node, shape, stmts, docs, sink, format, other>>
    /\ UNCHANGED <<parser, argv, parsed, exists, written>>

\* Bun.write(output, markdown) has settled: the text is written, or the
\* write was rejected
WriteOutput ==
    /\ pc = "writing"
    /\ \/ /\ pc' = "crashed"
          /\ UNCHANGED <<written, events>>
       \/ /\ written' = Some(Flatten(out))
          /\ events' = Append(events, "write")
          /\ pc' = "finished"
    /\ UNCHANGED <<node, shape, stmts, docs, linked, logged, sink, console, format, out, other>>
    /\ UNCHANGED <<parser, argv, parsed, exists>>

\* the command lines of the runs: each part is left out or given in one of
\* its forms
ArgParts ==
    <<{<<>>, <<(<<"-", "h">>)>>},
      {<<>>, <<(<<"-", "f">>)>>, <<(<<"-", "-">> \o T_force)>>,
       <<(<<"-", "f", "=", "1">>)>>},
      {<<>>, <<(<<"-", "i">>), (<<"a">> \o T_dotTs)>>, <<(<<"-", "i">>), (<<"a">> \o T_dotMd)>>},
      {<<>>, <<(<<"-", "o">>), (<<"b">> \o T_dotMd)>>, <<(<<"-", "o">>), T_stdout>>,
       <<(<<"-", "o">>), (<<"b">> \o T_dotTs)>>},
      {<<>>, <<(<<"-", "-">> \o T_format \o <<"=">> \o T_json)>>,
       <<(<<"-", "-">> \o T_format \o <<"=", "x">>)>>},
      {<<>>, <<(<<"-", "-">> \o T_verbose)>>}>>

CliArgLists ==
    {a \o b \o c \o d \o e \o f :
        a \in ArgParts[1], b \in ArgParts[2], c \in ArgParts[3],
        d \in ArgParts[4], e \in ArgParts[5], f \in ArgParts[6]}

InitCli ==
    /\ pc = "cli"
    /\ parser = argParser
    /\ argv \in CliArgLists
    /\ exists \in BOOLEAN
    /\ parsed = NoParse
    /\ events = <<>>
    /\ written = None
    /\ docs = <<>>
    /\ format = "tables"
    /\ sink = "noop"
    /\ node = Absent
    /\ shape = NoShape
    /\ stmts = <<>>
    /\ linked = EmptyObject
    /\ logged = <<>>
    /\ console = <<>>
    /\ out = <<>>
    /\ other = None

NextCli == Startup \/ ForceCheck \/ ReadInput \/ RunPipeline \/ WriteOutput

SpecCli == InitCli /\ [][NextCli]_vars

-----------------------------------------------------------------------------
(* The argument lists ArgumentParser.parse is called on: at most MaxArgs   *)
(* arguments, each one of ArgTokens.                                       *)

MaxArgs == 3

ArgTokens ==
    {T_doubleDash, <<"-", "f">>, <<"-", "i">>, <<"x">>, <<"-", "o", "=", "y">>}

InitArgs ==
    /\ pc = "args"
    /\ parser = argParserOptions
    /\ argv \in SeqsUpTo(ArgTokens, MaxArgs)
    /\ parsed = NoParse
    /\ exists = FALSE
    /\ events = <<>>
    /\ written = None
    /\ docs = <<>>
    /\ format = "tables"
    /\ sink = "noop"
    /\ node = Absent
    /\ shape = NoShape
    /\ stmts = <<>>
    /\ linked = EmptyObject
    /\ logged = <<>>
    /\ console = <<>>
    /\ out = <<>>
    /\ other = None

\* doubleDash() is called on the parser
DoubleDashCall ==
    /\ pc = "args"
    /\ ~parser.allowDoubleDash
    /\ parser' = doubleDash(parser)
    /\ UNCHANGED <<pc, node, shape, stmts, docs, linked, logged, sink, console, format, out, other>>
    /\ UNCHANGED <<argv, parsed, exists, events, written>>

\* parse(argv) is called on the parser and returns or throws
ParseCall ==
    /\ pc = "args"
    /\ parsed' = parse(parser, argv)
    /\ pc' = "parsed"
    /\ UNCHANGED <<node, shape, stmts, docs, linked, logged, sink, console, format, out, other>>
    /\ UNCHANGED <<parser, argv, exists, events, written>>

NextArgs == DoubleDashCall \/ ParseCall

SpecArgs == InitArgs /\ [][NextArgs]_vars

-----------------------------------------------------------------------------
(* The declaration lists of the link resolver's cases.  A list holds at    *)
(* most MaxDocs declarations and MaxTypes types (alias targets and         *)
(* property types) in all; a declaration is named from `names` and its     *)
(* types are drawn from `texts`.                                           *)
MaxDocs == 2
MaxTypes == 2

T_dollars == <<"$", "$">>

\* part_001 (the extraction that yields type texts): node.type.getText(),
\* and 'any' for a property without annotation
TextOf(n) == IF n.kind = "absent" THEN T_any ELSE getText(n)

NoMeta == [description |-> None, example |-> None]

TypeDoc(name, type, meta) ==
    [kind |-> "type", name |-> name, description |-> meta.description,
     example |-> meta.example, properties |-> <<>>, type |-> type]

InterfaceDoc(name, properties, meta) ==
    [kind |-> "interface", name |-> name, description |-> meta.description,
     example |-> meta.example, properties |-> properties, type |-> <<>>]

PlainProperty(name, type) ==
    [name |-> name, type |-> type, optional |-> FALSE, description |-> None,
     default |-> None, example |-> None]

\* the declarations with exactly k types
DocsWithTypes(names, texts, k) ==
    (IF k = 1 THEN {TypeDoc(n, t, NoMeta) : n \in names, t \in texts} ELSE {})
    \cup {InterfaceDoc(n, [i \in 1..k |->
                             PlainProperty(MemberNames[((i - 1) % Len(MemberNames)) + 1], ts[i])],
                       NoMeta)
            : n \in names, ts \in [1..k -> texts]}

RECURSIVE DocLists(_, _, _, _)
\* the lists of at most n declarations with at most k types in all
DocLists(names, texts, n, k) ==
    {<<>>}
    \cup (IF n = 0 THEN {}
          ELSE UNION {{<<d>> \o rest : d \in DocsWithTypes(names, texts, j),
                                       rest \in DocLists(names, texts, n - 1, k - j)}
                      : j \in 0..k})

InitPipeline(lists, sinks) ==
    /\ pc = "docs"
    /\ docs \in lists
    /\ format \in {"tables", "json"}
    /\ sink \in sinks
    /\ node = Absent
    /\ shape = NoShape
    /\ stmts = <<>>
    /\ linked = EmptyObject
    /\ logged = <<>>
    /\ console = <<>>
    /\ out = <<>>
    /\ other = None
    /\ CliIdle

\* the type nodes a name reference can be: N and N[]
ReferenceNodes(names) == {Ref(n) : n \in names} \cup {ArrayOf(Ref(n)) : n \in names}

\* declarations A and B; types that are primitive, a literal, declared
\* (A), undeclared (D) and an array of an undeclared name
LinkTypeNodes ==
    {Other(T_string), Other(T_literal), Ref(T_A), Ref(T_D), ArrayOf(Ref(T_D))}

Init ==
    InitPipeline(DocLists({T_A, T_B}, {TextOf(n) : n \in LinkTypeNodes}, MaxDocs, MaxTypes),
                 {"debug"})

Next == NextPipeline

Spec == Init /\ [][Next]_vars

\* declarations A and $$; types that are declared or not, and one that is
\* named like a member of Object.prototype
NameTypeNodes == {Ref(T_A), Ref(T_dollars), Ref(T_D), Ref(T_constructor)}

InitNames ==
    InitPipeline(DocLists({T_A, T_dollars}, {TextOf(n) : n \in NameTypeNodes}, MaxDocs, MaxTypes),
                 {"debug"})

SpecNames == InitNames /\ [][Next]_vars

\* one declaration name; types that are primitive, declared and undeclared
SinkTypeNodes == {Other(T_string), Ref(T_A), Ref(T_D)}

InitSink ==
    InitPipeline(DocLists({T_A}, {TextOf(n) : n \in SinkTypeNodes}, MaxDocs, MaxTypes),
                 {"noop", "debug"})

NextSink == PreprocessCall \/ GenerateCall \/ RunAgain

SpecSink == InitSink /\ [][NextSink]_vars

(* The interfaces of the renderer's cases: an alias A = string followed by *)
(* an interface B of at most MaxProperties properties, each drawn from     *)
(* TableProperties.                                                        *)
MaxProperties == 2

T_longPropertyName ==
    <<"l", "o", "n", "g", "P", "r", "o", "p", "e", "r", "t", "y", "N", "a", "m", "e">>
T_aDescription == <<"a", " ", "d", "e", "s", "c", "r", "i", "p", "t", "i", "o", "n">>
T_twoLines == <<"d", "\n", "e">>

Property(name, type, optional, default, description, example) ==
    [name |-> name, type |-> type, optional |-> optional, description |-> description,
     default |-> default, example |-> example]

TableProperties ==
    {Property(T_x, T_string, FALSE, None, None, None),
     Property(T_y, T_A, TRUE, None, None, Some(<<"e">>)),
     Property(T_longPropertyName, T_A, TRUE, Some(<<"0">>), Some(T_aDescription), Some(<<"e">>)),
     Property(T_y, T_D, FALSE, None, Some(T_twoLines), None),
     Property(T_z, T_string, TRUE, Some(<<"0">>), None, None),
     Property(T_x, TextOf(ArrayOf(Ref(T_A))), FALSE, Some(<<"0">>), Some(<<"d">>), None),
     Property(T_z, T_D, FALSE, None, None, Some(T_twoLines))}

TableMetas == {NoMeta, [description |-> Some(<<"d">>), example |-> Some(<<"e">>)]}

TableLists ==
    {<<TypeDoc(T_A, T_string, NoMeta), InterfaceDoc(T_B, ps, meta)>>
       : ps \in SeqsUpTo(TableProperties, MaxProperties), meta \in TableMetas}

InitTable == InitPipeline(TableLists, {"debug"})

SpecTable == InitTable /\ [][Next]_vars

-----------------------------------------------------------------------------
(* Reading the output back: sections, table cells and rendered types *)

T_heading == <<"\n", "#", "#", " ">>

IsHeading(piece) == Len(piece) >= Len(T_heading) /\ SubSeq(piece, 1, Len(T_heading)) = T_heading

\* the position in `pieces` of the k-th heading
HeadingAt(pieces, k) ==
    CHOOSE i \in 1..Len(pieces) :
        /\ IsHeading(pieces[i])
        /\ Cardinality({j \in 1..i : IsHeading(pieces[j])}) = k

HeadingCount(pieces) == Cardinality({i \in 1..Len(pieces) : IsHeading(pieces[i])})

\* the name a heading carries
HeadingName(piece) == SubSeq(piece, Len(T_heading) + 1, Len(piece) - 1)

\* the pieces of the k-th section, its heading first
SectionAt(pieces, k) ==
    SubSeq(pieces, HeadingAt(pieces, k),
           IF k < HeadingCount(pieces) THEN HeadingAt(pieces, k + 1) - 1 ELSE Len(pieces))

RECURSIVE TrimEnd(_)
TrimEnd(s) == IF s # <<>> /\ s[Len(s)] = " " THEN TrimEnd(SubSeq(s, 1, Len(s) - 1)) ELSE s

RECURSIVE HeaderWidths(_)
\* the widths of the columns, read from the header row after its leading "| "
HeaderWidths(s) ==
    LET i == IndexOf(s, T_bar)
    IN  IF i = 0 THEN <<Len(s) - Len(T_bar)>>
        ELSE <<i - 1>> \o HeaderWidths(SubSeq(s, i + Len(T_bar), Len(s)))

RECURSIVE CellStart(_, _)
CellStart(widths, c) == IF c = 1 THEN 3 ELSE CellStart(widths, c - 1) + widths[c - 1] + Len(T_bar)

\* the c-th cell of a table row, padding included
Cell(row, widths, c) == SubSeq(row, CellStart(widths, c), CellStart(widths, c) + widths[c] - 1)

\* the index in `section` of the first piece of the body: after the heading
\* and the description
BodyStart(doc) == IF Truthy(doc.description) THEN 3 ELSE 2

\* the type of the alias of a section, as rendered
RenderedAliasType(section, doc) ==
    LET piece == section[BodyStart(doc)] IN SubSeq(piece, 2, Len(piece) - 1)

\* the type of the i-th property of an interface's section, as rendered
RenderedPropertyType(section, doc, fmt, i) ==
    IF fmt = "tables"
    THEN LET header == section[BodyStart(doc)]
             widths == HeaderWidths(SubSeq(header, 3, Len(header)))
         IN  TrimEnd(Cell(section[BodyStart(doc) + 1 + i], widths, 2))
    ELSE LET lines == SelectSeq(section, LAMBDA piece : piece[1] = "  <strong>")
             line == lines[i]
         IN  SubSeq(line, IndexOf(line, <<": ">>) + 1, Len(line) - 2)

\* the names of the declarations of a list
NamesOf(list) == {list[i].name : i \in 1..Len(list)}

DistinctNames(list) == \A i, j \in 1..Len(list) : list[i].name = list[j].name => i = j

\* the section of the i-th declaration of a list of distinct names
SectionOfDoc(i) == SectionAt(out, i)

\* how often a line was handed to log
TimesLogged(line) == Cardinality({j \in 1..Len(logged) : logged[j] = line})

UnresolvedLine(owner) == <<"WARNING: Could not resolve type link for ">> \o owner

UnresolvedPropertyLine(owner, property) == UnresolvedLine(owner) \o <<".">> \o property

\* the name a type text refers to: N for N and for N[]
ReferredName(text) ==
    IF EndsWith(text, T_brackets) THEN SubSeq(text, 1, Len(text) - 2) ELSE text

ReferableNames == {T_A, T_B, T_D, T_dollars, T_constructor}

\* the type text is a reference to a name, as such or as an array
IsNameReference(text) ==
    \E n \in ReferenceNodes(ReferableNames) : text = getText(n)

IsPlainName(text) == text \in ReferableNames

-----------------------------------------------------------------------------
(* C1: when an interface property or a type alias refers to a name that no *)
(* declaration of the list has, the run completes, the reference is        *)
(* rendered as the plain text of the name and exactly one unresolved-link  *)
(* line is logged for it, naming the declaration and, for a property, the  *)
(* property.  Stated for lists of distinct declaration names.              *)
C1_UnresolvedIsPlainTextWithOneDiagnostic ==
    (pc = "done" /\ DistinctNames(docs)) =>
        \A i \in 1..Len(docs) :
            LET doc == docs[i]
                ldoc == linked.vals[doc.name]
            IN  IF doc.kind = "type"
                THEN (IsNameReference(doc.type) /\ ReferredName(doc.type) \notin NamesOf(docs)) =>
                        /\ RenderedAliasType(SectionOfDoc(i), ldoc) = ReferredName(doc.type)
                        /\ TimesLogged(UnresolvedLine(doc.name)) = 1
                ELSE \A k \in 1..Len(doc.properties) :
                        LET text == doc.properties[k].type IN
                        (IsNameReference(text) /\ ReferredName(text) \notin NamesOf(docs)) =>
                            /\ RenderedPropertyType(SectionOfDoc(i), ldoc, format, k)
                                  = ReferredName(text)
                            /\ TimesLogged(UnresolvedPropertyLine(doc.name, doc.properties[k].name)) = 1

-----------------------------------------------------------------------------
\* the list holds an alias named `name` whose target is the primitive string
HasStringAlias(list, name) ==
    \E i \in 1..Len(list) : list[i] = TypeDoc(name, T_string, NoMeta)

(* C2 as stated: with an alias A = string and an interface property of     *)
(* type A, the property's type is rendered as the text string              *)
C2_AliasInlinedAsString ==
    (pc = "done" /\ DistinctNames(docs)) =>
        \A i \in 1..Len(docs) : \A k \in 1..Len(docs[i].properties) :
            LET text == docs[i].properties[k].type IN
            (IsPlainName(text) /\ HasStringAlias(docs, text)) =>
                RenderedPropertyType(SectionOfDoc(i), linked.vals[docs[i].name], format, k)
                    = T_string

(* C2 as amended: with an alias A = string and an interface property of    *)
(* type A, the property's type stays a cross-reference to A, rendered as   *)
(* the link to A ([A](#A) in the tables format, an anchor to #A in the json *)
(* format) with no line logged; only A's own section reads string          *)
C2_AliasReferenceStaysALink ==
    (pc = "done" /\ DistinctNames(docs)) =>
        \A i \in 1..Len(docs) :
            /\ (docs[i].kind = "type" /\ docs[i].type = T_string) =>
                  RenderedAliasType(SectionOfDoc(i), linked.vals[docs[i].name]) = T_string
            /\ \A k \in 1..Len(docs[i].properties) :
                  LET text == docs[i].properties[k].type
                      ldoc == linked.vals[docs[i].name]
                  IN  (IsPlainName(text) /\ HasStringAlias(docs, text)) =>
                        /\ ldoc.properties[k].type = [to |-> Some(text), format |-> T_placeholder]
                        /\ RenderedPropertyType(SectionOfDoc(i), ldoc, format, k)
                              = (IF format = "tables"
                                 THEN <<"[">> \o text \o <<"]", "(", "#">> \o text \o <<")">>
                                 ELSE <<"<a href=\"#">> \o text \o <<"\">">> \o text \o <<"</a>">>)
                        /\ TimesLogged(UnresolvedPropertyLine(docs[i].name,
                                                              docs[i].properties[k].name)) = 0

C2_Witness ==
    /\ pc = "done"
    /\ format = "tables"
    /\ docs = <<TypeDoc(T_A, T_string, NoMeta),
                InterfaceDoc(T_B, <<PlainProperty(T_x, T_A)>>, NoMeta)>>
    /\ out = <<(T_heading \o T_A \o <<"\n">>),
               (<<"Type: ">> \o T_string \o <<"\n">>),
               (T_heading \o T_B \o <<"\n">>)>>
             \o generateTable(linked.vals[T_B])

-----------------------------------------------------------------------------
\* a primitive name or a quoted literal
IsPrimitiveOrLiteral(text) ==
    \/ text \in {T_string, T_number, T_boolean}
    \/ (Len(text) >= 2 /\ text[1] = "\"" /\ text[Len(text)] = "\"")

(* C3: a type that is a primitive name (string, number, boolean) or a      *)
(* quoted literal is inlined as literal text: it is rendered as written    *)
(* and, never being looked up, has no unresolved-link line logged for it   *)
C3_PrimitivesAndLiteralsInlinedSilently ==
    (pc = "done" /\ DistinctNames(docs)) =>
        \A i \in 1..Len(docs) :
            LET doc == docs[i]
                ldoc == linked.vals[doc.name]
            IN  IF doc.kind = "type"
                THEN IsPrimitiveOrLiteral(doc.type) =>
                        /\ RenderedAliasType(SectionOfDoc(i), ldoc) = doc.type
                        /\ TimesLogged(UnresolvedLine(doc.name)) = 0
                ELSE \A k \in 1..Len(doc.properties) :
                        IsPrimitiveOrLiteral(doc.properties[k].type) =>
                            /\ RenderedPropertyType(SectionOfDoc(i), ldoc, format, k)
                                  = doc.properties[k].type
                            /\ TimesLogged(UnresolvedPropertyLine(doc.name, doc.properties[k].name)) = 0

-----------------------------------------------------------------------------
(* C4: a type that names a declaration of the list is rendered as the      *)
(* markdown link [name](#name), wherever that declaration stands in the    *)
(* list, and no line is logged for it.  Stated for the places that use     *)
(* the markdown form (a type alias's line and the tables format); the json *)
(* format writes the link as an anchor.                                    *)
C4_DeclaredNameIsMarkdownLink ==
    (pc = "done" /\ DistinctNames(docs)) =>
        \A i \in 1..Len(docs) :
            LET doc == docs[i]
                ldoc == linked.vals[doc.name]
            IN  IF doc.kind = "type"
                THEN (IsPlainName(doc.type) /\ doc.type \in NamesOf(docs)) =>
                        /\ RenderedAliasType(SectionOfDoc(i), ldoc)
                              = <<"[">> \o doc.type \o <<"]", "(", "#">> \o doc.type \o <<")">>
                        /\ TimesLogged(UnresolvedLine(doc.name)) = 0
                ELSE \A k \in 1..Len(doc.properties) :
                        LET text == doc.properties[k].type IN
                        (format = "tables" /\ IsPlainName(text) /\ text \in NamesOf(docs)) =>
                            /\ RenderedPropertyType(SectionOfDoc(i), ldoc, format, k)
                                  = <<"[">> \o text \o <<"]", "(", "#">> \o text \o <<")">>
                            /\ TimesLogged(UnresolvedPropertyLine(doc.name, doc.properties[k].name)) = 0

-----------------------------------------------------------------------------
(* C8: the output has one section per declaration, in the order of the     *)
(* list given to preprocessForMarkdown; each starts with a level-2 heading *)
(* carrying the declaration's name, followed by its description when it    *)
(* has one                                                                 *)
C8_OneSectionPerDeclarationInOrder ==
    pc = "done" =>
        /\ HeadingCount(out) = Len(docs)
        /\ \A i \in 1..Len(docs) :
              LET section == SectionAt(out, i) IN
              /\ HeadingName(section[1]) = docs[i].name
              /\ Truthy(docs[i].description) =>
                    section[2] = Get(docs[i].description) \o <<" ", " ", "\n">>

-----------------------------------------------------------------------------
(* C9: the log callback has no effect on the result: a run and a later run *)
(* on the same docs and format, whatever callback each is given, return    *)
(* the same linked record and the same output                              *)
C9_SinkHasNoEffect ==
    IsSome(other) =>
        /\ pc \in {"linked", "done"} => linked = Get(other).linked
        /\ pc = "done" => out = Get(other).out

C9_Witness ==
    /\ pc = "done"
    /\ IsSome(other)
    /\ Get(other).sink = "noop"
    /\ sink = "debug"
    /\ console # <<>>
    /\ \E i \in 1..Len(logged) : logged[i][1] = "WARNING: Could not resolve type link for "

-----------------------------------------------------------------------------
\* the widest of the texts, and at least the header
ClaimedWidth(header, cells) ==
    LET lengths == {Len(header)} \cup {Len(cells[i]) : i \in 1..Len(cells)}
    IN  CHOOSE w \in lengths : \A v \in lengths : v <= w

\* the six cells printed for a property
PrintedCells(property) ==
    <<property.name,
      stringifyLink(property.type, FALSE),
      IF property.optional THEN T_Yes ELSE T_No,
      IF IsSome(property.default) THEN Get(property.default) ELSE T_dash,
      IF IsSome(property.description) THEN Get(property.description) ELSE <<>>,
      IF IsSome(property.example) THEN Get(property.example) ELSE <<>>>>

TableHeaders == <<T_Property, T_Type, T_Optional, T_Default, T_Description, T_Example>>

\* a text followed by the blanks that bring it to the width
RightPadded(text, width) == text \o [i \in 1..(width - Len(text)) |-> " "]

\* the rows of the table of the section of an interface
TableRowsOf(section, doc) ==
    SubSeq(section, BodyStart(doc), BodyStart(doc) + 1 + Len(doc.properties))

(* C10: in the table of an interface each of the six columns is as wide as *)
(* the longer of its header and its widest printed cell, every cell is     *)
(* right-padded to that width, and so the header row, the separator row    *)
(* and every data row have the same length                                 *)
C10_ColumnsPaddedToWidestCell ==
    (pc = "done" /\ format = "tables") =>
        \A k \in 1..Len(linked.keys) :
            LET doc == linked.vals[linked.keys[k]]
                rows == TableRowsOf(SectionAt(out, k), doc)
                n == Len(doc.properties)
                width == [c \in 1..6 |->
                            ClaimedWidth(TableHeaders[c],
                                         [i \in 1..n |-> PrintedCells(doc.properties[i])[c]])]
            IN  doc.kind = "interface" =>
                  /\ \A r \in 1..Len(rows) : Len(rows[r]) = Len(rows[1])
                  /\ HeaderWidths(SubSeq(rows[1], 3, Len(rows[1]))) = width
                  /\ \A c \in 1..6 :
                        /\ Cell(rows[1], width, c) = RightPadded(TableHeaders[c], width[c])
                        /\ Cell(rows[2], width, c) = [i \in 1..width[c] |-> "-"]
                        /\ \A i \in 1..n :
                              Cell(rows[2 + i], width, c)
                                  = RightPadded(PrintedCells(doc.properties[i])[c], width[c])

C10_Witness ==
    /\ pc = "done"
    /\ format = "tables"
    /\ Len(docs) = 2
    /\ Len(docs[2].properties) = 2
    /\ docs[2].properties[1].name = T_longPropertyName
    /\ docs[2].properties[2].default = None
    /\ LET rows == TableRowsOf(SectionAt(out, 2), linked.vals[T_B])
       IN  /\ Len(rows) = 4
           /\ HeaderWidths(SubSeq(rows[1], 3, Len(rows[1])))[1] = Len(T_longPropertyName)
           /\ HeaderWidths(SubSeq(rows[1], 3, Len(rows[1])))[2] > Len(T_Type)

-----------------------------------------------------------------------------
(* C5: the Type returned by extractType has as many leaves as its format    *)
(* has {} placeholders, for every type node                                *)
C5_LeafCountEqualsPlaceholders ==
    pc = "typed" => Len(shape.types) = CountPlaceholders(shape.format)

C5_Witness ==
    /\ pc = "typed"
    /\ node.kind = "union"
    /\ \E i \in 1..Len(node.kids) : node.kids[i].kind = "array"
    /\ Len(shape.types) >= 2

-----------------------------------------------------------------------------
(* The decomposition table of the specification (section 4.2), stated as   *)
(* the in-order list of a type expression's leaves and, separately, its    *)
(* format.                                                                 *)
RECURSIVE TableLeaves(_)
TableLeaves(n) ==
    IF n.kind = "absent" THEN <<T_any>>
    ELSE IF n.kids = <<>> THEN <<n.text>>
    ELSE Flatten([i \in 1..Len(n.kids) |-> TableLeaves(n.kids[i])])

RECURSIVE TableFormat(_)
TableFormat(n) ==
    IF n.kids = <<>> THEN T_placeholder
    ELSE IF n.kind = "array" THEN TableFormat(n.kids[1]) \o T_brackets
    ELSE Join([i \in 1..Len(n.kids) |-> TableFormat(n.kids[i])], T_bar)

(* C6: extractType agrees with the decomposition table: absent gives       *)
(* [any] and {}, a reference N gives [N] and {}, an array gives the        *)
(* element's leaves and its format followed by [], a union or an           *)
(* intersection gives the members' leaves left to right and their formats  *)
(* joined by ' | ', anything else gives its raw text as one leaf and {}    *)
C6_AgreesWithDecompositionTable ==
    pc = "typed" =>
        /\ shape.types = TableLeaves(node)
        /\ shape.format = TableFormat(node)

C6_Witness ==
    /\ pc = "typed"
    /\ node.kind = "intersection"
    /\ shape.types = <<T_A, T_D>>
    /\ shape.format = T_placeholder \o T_bar \o T_placeholder

-----------------------------------------------------------------------------
\* the positions of the statements that are exported interfaces or aliases
RECURSIVE ExportedDeclarations(_)
ExportedDeclarations(statements) ==
    IF statements = <<>> THEN <<>>
    ELSE (IF Head(statements).kind \in {"interface", "alias"} /\ Head(statements).exported
          THEN <<Head(statements)>> ELSE <<>>)
         \o ExportedDeclarations(Tail(statements))

RECURSIVE PropertySignatures(_)
PropertySignatures(members) ==
    IF members = <<>> THEN <<>>
    ELSE (IF Head(members).kind = "property" THEN <<Head(members).name>> ELSE <<>>)
         \o PropertySignatures(Tail(members))

-----------------------------------------------------------------------------
\* the piece is a line of a table: it opens with "| " and closes with " |"
IsTableRow(piece) ==
    /\ Len(piece) >= 5
    /\ SubSeq(piece, 1, 2) = <<"|", " ">>
    /\ SubSeq(piece, Len(piece) - 2, Len(piece)) = <<" ", "|", "\n">>

\* the pieces of a section that are lines of a table, in output order
TableRowsIn(section) ==
    LET at == {i \in 1..Len(section) : IsTableRow(section[i])}
        nth(k) == CHOOSE i \in at : Cardinality({j \in at : j <= i}) = k
    IN  [k \in 1..Cardinality(at) |-> section[nth(k)]]

\* the text is made of dashes only
IsDashes(text) == text # <<>> /\ \A i \in 1..Len(text) : text[i] = "-"

(* C11: for an interface with n properties the table is one header row,    *)
(* one separator row and n data rows in property order; the Optional cell  *)
(* of a data row reads Yes when the property is optional and No otherwise, *)
(* and its Default cell reads - when the property has no default           *)
C11_HeaderSeparatorAndOneRowPerProperty ==
    (pc = "done" /\ format = "tables") =>
        \A k \in 1..Len(linked.keys) :
            LET doc == linked.vals[linked.keys[k]]
                rows == TableRowsIn(SectionAt(out, k))
                n == Len(doc.properties)
                widths == HeaderWidths(SubSeq(rows[1], 3, Len(rows[1])))
            IN  doc.kind = "interface" =>
                  /\ Len(rows) = n + 2
                  /\ \A c \in 1..6 :
                        /\ TrimEnd(Cell(rows[1], widths, c)) = TableHeaders[c]
                        /\ IsDashes(Cell(rows[2], widths, c))
                  /\ \A i \in 1..n :
                        LET property == doc.properties[i] IN
                        /\ TrimEnd(Cell(rows[2 + i], widths, 1)) = property.name
                        /\ TrimEnd(Cell(rows[2 + i], widths, 3))
                              = (IF property.optional THEN T_Yes ELSE T_No)
                        /\ property.default = None =>
                              TrimEnd(Cell(rows[2 + i], widths, 4)) = T_dash

C11_Witness ==
    /\ pc = "done"
    /\ format = "tables"
    /\ Len(docs) = 2
    /\ docs[2].properties = <<Property(T_z, T_string, TRUE, Some(<<"0">>), None, None),
                              Property(T_x, T_string, FALSE, None, None, None)>>
    /\ LET rows == TableRowsIn(SectionAt(out, 2))
           widths == HeaderWidths(SubSeq(rows[1], 3, Len(rows[1])))
       IN  /\ Len(rows) = 4
           /\ TrimEnd(Cell(rows[3], widths, 3)) = T_Yes
           /\ TrimEnd(Cell(rows[4], widths, 3)) = T_No
           /\ TrimEnd(Cell(rows[3], widths, 4)) = <<"0">>
           /\ TrimEnd(Cell(rows[4], widths, 4)) = T_dash

-----------------------------------------------------------------------------
\* the lines of the text of the pieces, the line breaks taken out
LinesOf(pieces) ==
    LET lines == Split(Flatten(pieces), "\n")
    IN  IF lines[Len(lines)] = <<>> THEN SubSeq(lines, 1, Len(lines) - 1) ELSE lines

\* the lines of the json block of a section that stand between { and }
JsonBodyLines(section) ==
    LET lines == LinesOf(section)
        open == CHOOSE i \in 2..Len(lines) : lines[i] = <<"{">> /\ lines[i - 1] = <<"<pre>">>
        close == CHOOSE i \in 1..(Len(lines) - 1) :
                    lines[i] = <<"}">> /\ lines[i + 1] = <<"</pre>">>
    IN  SubSeq(lines, open + 1, close - 1)

IsPropertyLine(line) == line # <<>> /\ line[1] = "  <strong>"

\* the position in `lines` of the i-th property line; 0 stands before the first
PropertyLineAt(lines, i) ==
    IF i = 0 THEN 0
    ELSE CHOOSE j \in 1..Len(lines) :
            /\ IsPropertyLine(lines[j])
            /\ Cardinality({h \in 1..j : IsPropertyLine(lines[h])}) = i

\* the comment lines claimed for a property: its description, one line per
\* source line, then its default, then its example, the text of these two as
\* written
ClaimedCommentLines(property) ==
    (IF IsSome(property.description)
     THEN LET source == Split(Get(property.description), "\n")
          IN  [k \in 1..Len(source) |-> <<"  // ">> \o source[k]]
     ELSE <<>>)
    \o (IF IsSome(property.default)
        THEN Split(<<"  // Defaults to: ">> \o Get(property.default), "\n")
        ELSE <<>>)
    \o (IF IsSome(property.example)
        THEN Split(<<"  // Example: ">> \o Get(property.example), "\n")
        ELSE <<>>)

(* C12: in the json format the lines between { and } are, property by      *)
(* property in order, the property's comment lines and then its own line:  *)
(* the description first, one "// " line per source line, then the default, *)
(* then the example, each only when present; nothing of one property       *)
(* stands after its own line or before the line of the property before it  *)
C12_CommentLinesPrecedeTheirProperty ==
    (pc = "done" /\ format = "json") =>
        \A k \in 1..Len(linked.keys) :
            LET doc == linked.vals[linked.keys[k]]
                n == Len(doc.properties)
                lines == JsonBodyLines(SectionAt(out, k))
            IN  doc.kind = "interface" =>
                  /\ Cardinality({j \in 1..Len(lines) : IsPropertyLine(lines[j])}) = n
                  /\ n > 0 => PropertyLineAt(lines, n) = Len(lines)
                  /\ n = 0 => lines = <<>>
                  /\ \A i \in 1..n :
                        /\ LET line == lines[PropertyLineAt(lines, i)]
                               name == doc.properties[i].name
                           IN  SubSeq(line, 2, Len(name) + 2) = name \o <<"</strong>">>
                        /\ SubSeq(lines, PropertyLineAt(lines, i - 1) + 1,
                                  PropertyLineAt(lines, i) - 1)
                              = ClaimedCommentLines(doc.properties[i])

C12_Witness ==
    /\ pc = "done"
    /\ format = "json"
    /\ Len(docs) = 2
    /\ docs[2].properties
         = <<Property(T_y, T_D, FALSE, None, Some(T_twoLines), None),
             Property(T_longPropertyName, T_A, TRUE, Some(<<"0">>), Some(T_aDescription),
                      Some(<<"e">>))>>
    /\ JsonBodyLines(SectionAt(out, 2))
         = <<(<<"  // ", "d">>), (<<"  // ", "e">>),
             (<<"  <strong>">> \o T_y \o <<"</strong>", ": ">> \o T_D \o <<",">>),
             (<<"  // ">> \o T_aDescription), (<<"  // Defaults to: ", "0">>),
             (<<"  // Example: ", "e">>),
             (<<"  <strong>">> \o T_longPropertyName \o <<"</strong>", "?", ": ",
                "<a href=\"#", "A", "\">", "A", "</a>", ",">>)>>

-----------------------------------------------------------------------------
\* the command line holds the force flag, as -f or as --force
ForceGiven ==
    \E i \in 1..Len(argv) : argv[i] \in {<<"-", "f">>, <<"-", "-">> \o T_force}

\* how many times the event stands in events
TimesDone(event) == Cardinality({i \in 1..Len(events) : events[i] = event})

\* the run went past the checks of its arguments to the check of the output
ReachedForceCheck ==
    /\ pc \notin {"cli", "checking"}
    /\ ~parsed.threw
    /\ ~IsTruthyValue(Prop(parsed, T_help))
    /\ UsageError(parsed) = None

(* C13: when the output exists and the force flag was not given, the run   *)
(* never reads the input and never writes the output, and once at the      *)
(* check of the output it stops with a usage error; the output is written  *)
(* at most once, and only after extraction, preprocessing and generation,  *)
(* in that order                                                           *)
C13_NoOverwriteWithoutForceAndOneWriteLast ==
    /\ (exists /\ ~ForceGiven) =>
          /\ TimesDone("read") = 0
          /\ TimesDone("write") = 0
          /\ written = None
          /\ ReachedForceCheck =>
                /\ pc = "exited"
                /\ events = <<"invalidUsage", "exit 1">>
                /\ console = invalidUsage("Output file already exists. Use -f to overwrite")
    /\ TimesDone("write") <= 1
    /\ IsSome(written) <=> TimesDone("write") = 1
    /\ TimesDone("write") = 1 =>
          events = <<"read", "extract", "preprocess", "generate", "write">>

C13_Witness ==
    /\ exists
    /\ ~ForceGiven
    /\ argv = <<(<<"-", "i">>), (<<"a">> \o T_dotTs), (<<"-", "o">>), (<<"b">> \o T_dotMd)>>
    /\ ReachedForceCheck
    /\ pc = "exited"
    /\ events = <<"invalidUsage", "exit 1">>
    /\ written = None

-----------------------------------------------------------------------------
\* the index in argv of its first --, 0 when it has none
FirstDoubleDash ==
    LET hits == {i \in 1..Len(argv) : argv[i] = T_doubleDash}
    IN  IF hits = {} THEN 0 ELSE CHOOSE i \in hits : \A j \in hits : i <= j

(* C14: with the double dash enabled, the first -- of the argument list is *)
(* the separator: the result is that of the arguments before it, with      *)
(* every argument after it appended to args as written and in order; the   *)
(* -- itself is not the value of an option and is not put into args        *)
C14_FirstDoubleDashSeparates ==
    (pc = "parsed" /\ parser.allowDoubleDash /\ FirstDoubleDash # 0) =>
        LET before == parse(parser, SubSeq(argv, 1, FirstDoubleDash - 1))
            after == SubSeq(argv, FirstDoubleDash + 1, Len(argv))
        IN  /\ parsed = [before EXCEPT !.args = @ \o after]
            /\ \A k \in 1..Len(parsed.props) : parsed.props[k].value # Value(T_doubleDash)

-----------------------------------------------------------------------------
\* the text is of the array form N[], N a plain name
IsArrayOfName(text) == \E n \in ReferableNames : text = n \o T_brackets

(* C15: when a type of the array form N[] refers to a name N that no       *)
(* declaration has, the fallback keeps the shape of the type: the alias or *)
(* the property is rendered as the text N[], not as N alone                *)
C15_UnresolvedArrayKeepsBrackets ==
    (pc = "done" /\ DistinctNames(docs)) =>
        \A i \in 1..Len(docs) :
            LET doc == docs[i]
                ldoc == linked.vals[doc.name]
            IN  IF doc.kind = "type"
                THEN (IsArrayOfName(doc.type) /\ ReferredName(doc.type) \notin NamesOf(docs)) =>
                        RenderedAliasType(SectionOfDoc(i), ldoc) = doc.type
                ELSE \A k \in 1..Len(doc.properties) :
                        LET text == doc.properties[k].type IN
                        (IsArrayOfName(text) /\ ReferredName(text) \notin NamesOf(docs)) =>
                            RenderedPropertyType(SectionOfDoc(i), ldoc, format, k) = text

=============================================================================
